---- MODULE Spec2Model ----
(***************************************************************************)
(* Schedule-density engine of the course-scheduling tool.                  *)
(*                                                                         *)
(* An uploaded sheet is normalised and stored by readExcelToDB             *)
(* (src/src/excel2db.py); ScheduleDensity.compute                          *)
(* (src/src/analytics/scheduleDensity.py) builds one interval index per    *)
(* day from the stored rows and ScheduleDensity.plot queries every index   *)
(* on a fixed grid of 6 days x 132 five-minute slots.                      *)
(*                                                                         *)
(* Strings are sequences of one-character strings ("MWF" is                *)
(* <<"M","W","F">>).  A wall-clock string "HH:MM:SS" is the tuple          *)
(* <<HH, MM, SS>>.  An interval is the pair <<begin, end>>.  An            *)
(* IntervalTree of the intervaltree package is the set of its intervals:   *)
(* add() of an interval already present changes nothing, add() of a null   *)
(* interval (begin >= end) raises ValueError, and tree[p] is the set of    *)
(* intervals with begin <= p < end.                                        *)
(***************************************************************************)
EXTENDS Integers, Sequences, FiniteSets, TLC

\* ------------------------------------------------------------------ bounds
MaxRows == 2
MaxThreshold == 3
MaxRuns == 2
MaxPatternLen == 3

\* ------------------------------------------------------ program constants
DefaultOverlapThreshold == 2
FirstHour == 8
EndHour == 19
MinuteStep == 5
BaseMarkerSize == 5
MarkerSizeStep == 4

\* --------------------------------------------------------------- the state
VARIABLES
    dayIntervalTree,  \* compute: day -> IntervalTree
    markers           \* plot: the markers list

\* ------------------------------------------------------------------ values
\* a missing cell (NaN in the sheet, NULL in the table, None in a row)
NaN == <<"NaN">>

\* a missing time: the empty cell of the sheet, the NULL of the table, the
\* None that pandas.to_datetime returns for None
NoCell == [I |-> -1, M |-> -1, p |-> "NaN"]
NoTime == <<-1, -1, -1>>
NoDatetime == [hour |-> -1, minute |-> -1, second |-> -1]

S_TR == <<"T", "R">>
S_SA == <<"S", "A">>
S_SU == <<"S", "U">>

Range(s) == {s[i] : i \in 1..Len(s)}

\* the raw MEETING PATTERN cells the sheet rows are drawn from
RawPatterns ==
    { <<>>, NaN, <<"M">>, <<"M", "W", "F">>, S_TR, S_SA, S_SU,
      <<"M", "W", "S", "A">>, <<"W", "T", "R">>, <<"Z">> }

\* 12-hour clock cells "I:MM p" of the sheet
T0900 == [I |-> 9, M |-> 0, p |-> "AM"]
T0930 == [I |-> 9, M |-> 30, p |-> "AM"]
T1000 == [I |-> 10, M |-> 0, p |-> "AM"]
T1015 == [I |-> 10, M |-> 15, p |-> "AM"]
T1030 == [I |-> 10, M |-> 30, p |-> "AM"]
T1200 == [I |-> 12, M |-> 0, p |-> "PM"]
T1315 == [I |-> 1, M |-> 15, p |-> "PM"]

SheetRow(pat, st, en) == [pattern |-> pat, start |-> st, end |-> en]

\* the rows a sheet is made of: every raw pattern with a one-hour meeting,
\* zero-length meetings with a plain, a missing and a Sunday pattern, and
\* further meeting times with the plain patterns; a meeting that ends before
\* it starts and meetings with a missing time
SheetRows ==
    {SheetRow(pat, T0900, T1000) : pat \in RawPatterns}
    \cup {SheetRow(pat, T0900, T0900) : pat \in {<<"M", "W", "F">>, NaN, S_SU}}
    \cup {SheetRow(<<"M">>, T0930, T1030),
          SheetRow(<<"M", "W", "F">>, T0900, T1015),
          SheetRow(<<"M">>, T1200, T1315)}
    \cup {SheetRow(<<"M">>, T1000, T0900),
          SheetRow(<<"M">>, NoCell, T1000),
          SheetRow(<<"M">>, NoCell, NoCell)}

Thresholds == 1..MaxThreshold

\* ------------------------------------------------------------ readExcelToDB
\* pandas.to_datetime(format="%I:%M %p") followed by .dt.strftime("%H:%M:%S")
\* (a missing cell stays missing)
StrftimeHMS(t) ==
    IF t = NoCell THEN NoTime
    ELSE <<(t.I % 12) + (IF t.p = "PM" THEN 12 ELSE 0), t.M, 0>>

\* Series.replace(old, new) on one cell: a cell is replaced only when the
\* whole cell equals old
SeriesReplace(cell, old, new) == IF cell = old THEN new ELSE cell

\* the normalisation without the replacement of "TR"
TradMeetingPattern_keepTR(raw) ==
    SeriesReplace(SeriesReplace(raw, S_SA, <<"S">>), S_SU, <<"X">>)

TradMeetingPattern(raw) ==
    SeriesReplace(SeriesReplace(SeriesReplace(raw, S_TR, <<"R">>),
                                S_SA, <<"S">>),
                  S_SU, <<"X">>)

StoredRow(r) ==
    [pattern |-> TradMeetingPattern(r.pattern),
     start |-> StrftimeHMS(r.start),
     end |-> StrftimeHMS(r.end)]

\* ------------------------------------------- traditionalMeetingPattern
\* python str.replace(old, new) for a two-character old
RECURSIVE StrReplace(_, _, _)
StrReplace(s, old, new) ==
    IF Len(s) < Len(old) THEN s
    ELSE IF SubSeq(s, 1, Len(old)) = old
         THEN new \o StrReplace(SubSeq(s, Len(old) + 1, Len(s)), old, new)
         ELSE <<s[1]>> \o StrReplace(Tail(s), old, new)

\* the pattern normalised cell by cell, as Series.replace does
traditionalMeetingPattern_wholeCell(row) ==
    LET meeting_pattern == row["MEETING PATTERN"]
    IN  IF meeting_pattern # NaN /\ meeting_pattern # <<>>
        THEN TradMeetingPattern(meeting_pattern)
        ELSE <<>>

\* None and "" are falsy
traditionalMeetingPattern(row) ==
    LET meeting_pattern == row["MEETING PATTERN"]
    IN  IF meeting_pattern # NaN /\ meeting_pattern # <<>>
        THEN StrReplace(StrReplace(StrReplace(meeting_pattern,
                                              S_TR, <<"R">>),
                                   S_SA, <<"S">>),
                        S_SU, <<"X">>)
        ELSE <<>>

\* ----------------------------------------------------------------- helpers
\* pandas.to_datetime(arg, format="%H:%M:%S"); None for None
to_datetime(s) ==
    IF s = NoTime THEN NoDatetime
    ELSE [hour |-> s[1], minute |-> s[2], second |-> s[3]]

\* datetimeToMinutes without the minutes of the hour
datetimeToMinutes_hoursOnly(dt) == dt.hour * 60

datetimeToMinutes(dt) == dt.hour * 60 + dt.minute

\* ------------------------------------------------------------ IntervalTree
\* a null test that rejects empty intervals only
IsNull_emptyOnly(iv) == iv[1] = iv[2]

IsNull(iv) == iv[1] >= iv[2]

TreeAdd(tree, iv) == tree \cup {iv}

\* a point query that misses the intervals beginning at the point
TreeAt_openBegin(tree, p) == {iv \in tree : iv[1] < p /\ p < iv[2]}

\* a point query that keeps the intervals ending at the point
TreeAt_closedEnd(tree, p) == {iv \in tree : iv[1] <= p /\ p <= iv[2]}

TreeAt(tree, p) == {iv \in tree : iv[1] <= p /\ p < iv[2]}

\* ---------------------------------------------------------- compute / plot
Days == <<"M", "T", "W", "R", "F", "S">>
DaySet == Range(Days)

Reverse(s) == [i \in 1..Len(s) |-> s[Len(s) + 1 - i]]

\* days after days.reverse()
plotDays == Reverse(Days)

\* list.index(value), counted from 0
ListIndex(s, v) == (CHOOSE i \in 1..Len(s) : s[i] = v /\ \A j \in 1..(i - 1) : s[j] # v) - 1

\* the minutes of times: hour in range(8, 19), minute in range(0, 60, 5)
SlotsPerHour == 60 \div MinuteStep
\* the slots of range(8, 20): the hour of the end of the window included
NumSlots_throughEndHour == (EndHour - FirstHour + 1) * SlotsPerHour

NumSlots == (EndHour - FirstHour) * SlotsPerHour
times ==
    [k \in 1..NumSlots |->
        [hour |-> FirstHour + ((k - 1) \div SlotsPerHour),
         minute |-> ((k - 1) % SlotsPerHour) * MinuteStep,
         second |-> 0]]

\* red only above the threshold
Color_aboveThreshold(overlapCount, overlapThreshold) ==
    IF overlapCount > overlapThreshold THEN "red"
    ELSE IF overlapCount # 0 THEN "orange"
    ELSE "green"

\* orange without the test of "elif overlaps"
Color_noGreen(overlapCount, overlapThreshold) ==
    IF overlapCount >= overlapThreshold THEN "red" ELSE "orange"

Color(overlapCount, overlapThreshold) ==
    IF overlapCount >= overlapThreshold THEN "red"
    ELSE IF overlapCount # 0 THEN "orange"
    ELSE "green"

Marker(its, day, time, overlapThreshold) ==
    LET minutes == datetimeToMinutes(time)
        overlapCount == Cardinality(TreeAt(its[day], minutes))
    IN  [x |-> minutes,
         y |-> ListIndex(plotDays, day),
         color |-> Color(overlapCount, overlapThreshold),
         size |-> BaseMarkerSize + MarkerSizeStep * overlapCount,
         overlaps |-> overlapCount]

\* the markers appended to the list of the invocation before
Markers_appended(its, overlapThreshold) ==
    markers \o
    [n \in 1..(Len(plotDays) * NumSlots) |->
        Marker(its,
               plotDays[((n - 1) \div NumSlots) + 1],
               times[((n - 1) % NumSlots) + 1],
               overlapThreshold)]

\* the markers list: for day in days: for time in times: markers.append(...)
Markers(its, overlapThreshold) ==
    [n \in 1..(Len(plotDays) * NumSlots) |->
        Marker(its,
               plotDays[((n - 1) \div NumSlots) + 1],
               times[((n - 1) % NumSlots) + 1],
               overlapThreshold)]

\* compute without the test of startTime == endTime
SkipRow_never(row) == FALSE

\* the row test of compute: startTime == endTime
SkipRow(row) == to_datetime(row.start) = to_datetime(row.end)

RowInterval(row) ==
    <<datetimeToMinutes(to_datetime(row.start)),
      datetimeToMinutes(to_datetime(row.end))>>

\* the trees of the invocation before, used again
EmptyTrees_reused == dayIntervalTree

EmptyTrees == [d \in DaySet |-> {}]

VARIABLES
    pc,               \* "sheet", "db", "compute", "plot", "done", "raised"
    sheet,            \* the rows of the uploaded sheet
    schedule,         \* the rows of table schedule
    rowIdx,           \* compute: the row of courseSchedule.iterrows()
    dayIdx,           \* compute: the character of "for day in pattern", 0 at the row's head
    exc,              \* the exception that ended the run, "none" otherwise
    overlapThreshold, \* plot: its parameter
    yaxis,            \* plot: tickvals and ticktext of the y axis
    runs,             \* the invocations of compute so far
    prev,             \* the input and the result of the invocation before this one
    patternRow,       \* traditionalMeetingPattern: row["MEETING PATTERN"]
    tradPattern,      \* traditionalMeetingPattern: the value returned
    session_state,    \* streamlit.session_state: the keys that exist and their values
    excelFile,        \* main: the file in the uploader, NoFile when there is none
    mainPc,           \* the position of the script run or of the callback before it
    page,             \* what the last script run displayed and how it ended
    printed           \* createIntervalTrees: the <<row, character>> of each "Error:" printed

\* the variables of the user interface and of createIntervalTrees
sessionVars == <<session_state, excelFile, mainPc, page, printed>>

vars == <<pc, sheet, schedule, dayIntervalTree, rowIdx, dayIdx, exc,
          overlapThreshold, markers, yaxis, runs, prev, patternRow,
          tradPattern, session_state, excelFile, mainPc, page, printed>>

\* ------------------------------------------------------ the session state
\* python values: the type and, as a list of strings, the content
PyNone == [type |-> "NoneType", val |-> <<>>]
PyTrue == [type |-> "bool", val |-> <<"True">>]
PyFalse == [type |-> "bool", val |-> <<"False">>]
PyStr(str) == [type |-> "str", val |-> <<str>>]
PyList(items) == [type |-> "list", val |-> items]
\* the connection to the database readExcelToDB made of a file
PyConn(file) == [type |-> "Connection", val |-> <<file.name>>]

\* bool(v) of python
Truthy(v) ==
    /\ v.type # "NoneType"
    /\ v # PyFalse
    /\ v.type \in {"list", "str"} => v.val # <<>> /\ v.val # <<"">>

SESSION_STATE_KEYS ==
    <<"dbConn", "showAnalyticButtons", "analyticTitle", "analyticSubtitle",
      "dfList", "dfListTitles", "dfListSubtitles", "figList", "figListTitles">>

\* session_state[key] = value, the key made when it is not there
SetKey(ss, key, value) ==
    [k \in DOMAIN ss \cup {key} |-> IF k = key THEN value ELSE ss[k]]

\* session_state[key] = None for every key of keys
SetNone(ss, keys) ==
    [k \in DOMAIN ss \cup Range(keys) |->
        IF k \in Range(keys) THEN PyNone ELSE ss[k]]

\* an initialState that sets every key
initialState_overwriting(ss) == SetNone(ss, SESSION_STATE_KEYS)

initialState(ss) ==
    [k \in DOMAIN ss \cup Range(SESSION_STATE_KEYS) |->
        IF k \in DOMAIN ss THEN ss[k] ELSE PyNone]

\* a resetState that keeps the connection and the buttons
resetState_contentOnly(ss) ==
    SetNone(ss, SubSeq(SESSION_STATE_KEYS, 3, Len(SESSION_STATE_KEYS)))

resetState(ss) == SetNone(ss, SESSION_STATE_KEYS)

\* a clearContent that starts at the second key
clearContent_fromSecond(ss) ==
    SetNone(ss, SubSeq(SESSION_STATE_KEYS, 2, Len(SESSION_STATE_KEYS)))

clearContent(ss) ==
    SetNone(ss, SubSeq(SESSION_STATE_KEYS, 3, Len(SESSION_STATE_KEYS)))

\* no file in the uploader
NoFile == [name |-> "None", rows |-> <<>>, assignments |-> <<>>]

\* nothing displayed yet
NoPage == [callback |-> "none", callbackExc |-> "none", buttons |-> FALSE,
           error |-> FALSE, filterConn |-> <<>>, exc |-> "none"]

\* no invocation before this one
NoPrev == [valid |-> FALSE, schedule |-> <<>>, threshold |-> 0,
           trees |-> [d \in DaySet |-> {}], markers |-> <<>>]

\* nothing returned yet
NotCalled == <<"?">>

Init ==
    /\ pc = "sheet"
    /\ sheet = <<>>
    /\ schedule = <<>>
    /\ dayIntervalTree = [d \in DaySet |-> {}]
    /\ rowIdx = 0
    /\ dayIdx = 0
    /\ exc = "none"
    /\ overlapThreshold = DefaultOverlapThreshold
    /\ markers = <<>>
    /\ yaxis = [tickvals |-> <<>>, ticktext |-> <<>>]
    /\ runs = 0
    /\ prev = NoPrev
    /\ patternRow = ("MEETING PATTERN" :> <<>>)
    /\ tradPattern = NotCalled
    /\ session_state = <<>>
    /\ excelFile = NoFile
    /\ mainPc = "start"
    /\ page = NoPage
    /\ printed = <<>>

\* one more row of the sheet that is uploaded
AddSheetRow(r) ==
    /\ pc = "sheet"
    /\ Len(sheet) < MaxRows
    /\ sheet' = Append(sheet, r)
    /\ UNCHANGED <<pc, schedule, dayIntervalTree, rowIdx, dayIdx, exc,
                   overlapThreshold, markers, yaxis, runs, prev, patternRow,
                   tradPattern>>
    /\ UNCHANGED sessionVars

readExcelToDB ==
    /\ pc = "sheet"
    /\ schedule' = [k \in 1..Len(sheet) |-> StoredRow(sheet[k])]
    /\ pc' = "db"
    /\ UNCHANGED <<sheet, dayIntervalTree, rowIdx, dayIdx, exc,
                   overlapThreshold, markers, yaxis, runs, prev, patternRow,
                   tradPattern>>
    /\ UNCHANGED sessionVars

\* compute is entered: six fresh trees, the first row is next
ComputeBegin ==
    /\ pc = "db"
    /\ dayIntervalTree' = EmptyTrees
    /\ rowIdx' = 1
    /\ dayIdx' = 0
    /\ pc' = "compute"
    /\ runs' = runs + 1
    /\ UNCHANGED <<sheet, schedule, exc, overlapThreshold, markers, yaxis,
                   prev, patternRow, tradPattern>>
    /\ UNCHANGED sessionVars

Raise(e) ==
    /\ pc' = "raised"
    /\ exc' = e
    /\ UNCHANGED <<dayIntervalTree, rowIdx, dayIdx>>

NextRow ==
    /\ rowIdx' = rowIdx + 1
    /\ dayIdx' = 0
    /\ UNCHANGED <<pc, exc>>

\* the head of one iteration of "for _, row in courseSchedule.iterrows()"
ComputeRow ==
    /\ pc = "compute"
    /\ rowIdx <= Len(schedule)
    /\ dayIdx = 0
    /\ LET row == schedule[rowIdx]
       IN  IF SkipRow(row)
           THEN NextRow /\ UNCHANGED dayIntervalTree
           ELSE IF to_datetime(row.start) = NoDatetime
                   \/ to_datetime(row.end) = NoDatetime
           THEN Raise("AttributeError")
           ELSE IF row.pattern = NaN
           THEN Raise("TypeError")
           ELSE IF Len(row.pattern) = 0
           THEN NextRow /\ UNCHANGED dayIntervalTree
           ELSE /\ dayIdx' = 1
                /\ UNCHANGED <<pc, exc, rowIdx, dayIntervalTree>>
    /\ UNCHANGED <<sheet, schedule, overlapThreshold, markers, yaxis, runs,
                   prev, patternRow, tradPattern>>
    /\ UNCHANGED sessionVars

\* one iteration of "for day in pattern"
ComputeDay ==
    /\ pc = "compute"
    /\ rowIdx <= Len(schedule)
    /\ dayIdx >= 1
    /\ LET row == schedule[rowIdx]
           day == row.pattern[dayIdx]
           interval == RowInterval(row)
       IN  IF day \notin DaySet
           THEN Raise("KeyError")
           ELSE IF IsNull(interval)
           THEN Raise("ValueError")
           ELSE /\ dayIntervalTree' =
                       [dayIntervalTree EXCEPT ![day] = TreeAdd(@, interval)]
                /\ IF dayIdx < Len(row.pattern)
                   THEN /\ dayIdx' = dayIdx + 1
                        /\ UNCHANGED <<pc, exc, rowIdx>>
                   ELSE NextRow
    /\ UNCHANGED <<sheet, schedule, overlapThreshold, markers, yaxis, runs,
                   prev, patternRow, tradPattern>>
    /\ UNCHANGED sessionVars

\* the rows are exhausted: return dayIntervalTree
ComputeReturn ==
    /\ pc = "compute"
    /\ rowIdx > Len(schedule)
    /\ pc' = "plot"
    /\ UNCHANGED <<sheet, schedule, dayIntervalTree, rowIdx, dayIdx, exc,
                   overlapThreshold, markers, yaxis, runs, prev, patternRow,
                   tradPattern>>
    /\ UNCHANGED sessionVars

\* a plot that empties the trees it has queried
plot_clearing(T) ==
    /\ pc = "plot"
    /\ overlapThreshold' = T
    /\ markers' = Markers(dayIntervalTree, T)
    /\ yaxis' = [tickvals |-> [i \in 1..Len(plotDays) |-> i - 1],
                 ticktext |-> plotDays]
    /\ dayIntervalTree' = EmptyTrees
    /\ pc' = "done"
    /\ UNCHANGED <<sheet, schedule, rowIdx, dayIdx, exc,
                   runs, prev, patternRow, tradPattern>>
    /\ UNCHANGED sessionVars

plot(T) ==
    /\ pc = "plot"
    /\ overlapThreshold' = T
    /\ markers' = Markers(dayIntervalTree, T)
    /\ yaxis' = [tickvals |-> [i \in 1..Len(plotDays) |-> i - 1],
                 ticktext |-> plotDays]
    /\ pc' = "done"
    /\ UNCHANGED <<sheet, schedule, dayIntervalTree, rowIdx, dayIdx, exc,
                   runs, prev, patternRow, tradPattern>>
    /\ UNCHANGED sessionVars

Next ==
    \/ \E r \in SheetRows : AddSheetRow(r)
    \/ readExcelToDB
    \/ ComputeBegin
    \/ ComputeRow
    \/ ComputeDay
    \/ ComputeReturn
    \/ \E T \in Thresholds : plot(T)

Spec == Init /\ [][Next]_vars

\* ---------------------------------------------------- repeated invocations
\* the rows of the sheets of repeated invocations
RerunRows ==
    {SheetRow(<<"M">>, T0900, T1000), SheetRow(<<"M">>, T0930, T1030)}

\* what the invocation that has just ended was given and returned
Snapshot ==
    IF pc = "done"
    THEN [valid |-> TRUE, schedule |-> schedule,
          threshold |-> overlapThreshold, trees |-> dayIntervalTree,
          markers |-> markers]
    ELSE prev

\* the analytic is run once more on the same table: run calls compute
RunAgain ==
    /\ pc \in {"done", "raised"}
    /\ runs < MaxRuns
    /\ prev' = Snapshot
    /\ dayIntervalTree' = EmptyTrees
    /\ rowIdx' = 1
    /\ dayIdx' = 0
    /\ exc' = "none"
    /\ pc' = "compute"
    /\ runs' = runs + 1
    /\ UNCHANGED <<sheet, schedule, overlapThreshold, markers, yaxis,
                   patternRow, tradPattern>>
    /\ UNCHANGED sessionVars

\* another sheet is uploaded
UploadAgain ==
    /\ pc \in {"done", "raised"}
    /\ runs < MaxRuns
    /\ prev' = Snapshot
    /\ sheet' = <<>>
    /\ schedule' = <<>>
    /\ exc' = "none"
    /\ pc' = "sheet"
    /\ UNCHANGED <<dayIntervalTree, rowIdx, dayIdx, overlapThreshold, markers,
                   yaxis, runs, patternRow, tradPattern>>
    /\ UNCHANGED sessionVars

NextRerun ==
    \/ \E r \in RerunRows : AddSheetRow(r)
    \/ readExcelToDB
    \/ ComputeBegin
    \/ ComputeRow
    \/ ComputeDay
    \/ ComputeReturn
    \/ plot(DefaultOverlapThreshold)
    \/ RunAgain
    \/ UploadAgain

SpecRerun == Init /\ [][NextRerun]_vars

\* ---------------------------------------- traditionalMeetingPattern alone
\* the characters of the MEETING PATTERN values it is called with
PatternChars == {"M", "T", "R", "S", "A", "U", " "}

S_MWF_TR == <<"M", "W", "F", " ", "T", "R">>
S_SA_SU == <<"S", "A", " ", "S", "U">>

\* the MEETING PATTERN values: every string of up to MaxPatternLen
\* characters, the strings of the documented examples and the missing value
PatternValues ==
    UNION {[1..n -> PatternChars] : n \in 0..MaxPatternLen}
    \cup {S_MWF_TR, S_SA_SU, NaN}

InitPattern ==
    /\ pc = "sheet"
    /\ sheet = <<>>
    /\ schedule = <<>>
    /\ dayIntervalTree = [d \in DaySet |-> {}]
    /\ rowIdx = 0
    /\ dayIdx = 0
    /\ exc = "none"
    /\ overlapThreshold = DefaultOverlapThreshold
    /\ markers = <<>>
    /\ yaxis = [tickvals |-> <<>>, ticktext |-> <<>>]
    /\ runs = 0
    /\ prev = NoPrev
    /\ patternRow \in {("MEETING PATTERN" :> v) : v \in PatternValues}
    /\ tradPattern = NotCalled
    /\ session_state = <<>>
    /\ excelFile = NoFile
    /\ mainPc = "start"
    /\ page = NoPage
    /\ printed = <<>>

CallTraditionalMeetingPattern ==
    /\ tradPattern = NotCalled
    /\ tradPattern' = traditionalMeetingPattern(patternRow)
    /\ UNCHANGED <<pc, sheet, schedule, dayIntervalTree, rowIdx, dayIdx, exc,
                   overlapThreshold, markers, yaxis, runs, prev, patternRow>>
    /\ UNCHANGED sessionVars

NextPattern == CallTraditionalMeetingPattern

SpecPattern == InitPattern /\ [][NextPattern]_vars

\* ------------------------------------------------------------ the web page
\* the files a user uploads: the rows of the sheet and, row by row, the
\* instructor and the combined id the course schedule query gives
FileA ==
    [name |-> "a.xlsx",
     rows |-> <<SheetRow(<<"M">>, T0900, T1000),
                SheetRow(<<"M", "W", "F">>, T0900, T1015)>>,
     assignments |-> <<[INSTRUCTOR |-> "Hopper", COMBINED_ID |-> "(Hopper,M)"],
                       [INSTRUCTOR |-> "Turing", COMBINED_ID |-> "(Turing,MWF)"]>>]

\* a file whose only row has no MEETING PATTERN and no INSTRUCTOR
FileB ==
    [name |-> "b.xlsx",
     rows |-> <<SheetRow(NaN, T0900, T1000)>>,
     assignments |-> <<[INSTRUCTOR |-> "NaN",
                        COMBINED_ID |-> "(UNKNOWN, N/A, N/A)"]>>]

Files == {FileA, FileB}

\* what one row does to compute: "skip", "add" or the exception it raises
RowOutcome(row) ==
    IF SkipRow(row) THEN "skip"
    ELSE IF to_datetime(row.start) = NoDatetime
            \/ to_datetime(row.end) = NoDatetime THEN "AttributeError"
    ELSE IF row.pattern = NaN THEN "TypeError"
    ELSE IF Len(row.pattern) = 0 THEN "skip"
    ELSE IF row.pattern[1] \notin DaySet THEN "KeyError"
    ELSE IF IsNull(RowInterval(row)) THEN "ValueError"
    ELSE IF \E i \in 1..Len(row.pattern) : row.pattern[i] \notin DaySet
    THEN "KeyError"
    ELSE "add"

RECURSIVE computeFrom(_, _, _)
computeFrom(courseSchedule, k, trees) ==
    IF k > Len(courseSchedule) THEN [exc |-> "none", trees |-> trees]
    ELSE LET row == courseSchedule[k]
             o == RowOutcome(row)
         IN  IF o = "skip" THEN computeFrom(courseSchedule, k + 1, trees)
             ELSE IF o = "add"
             THEN computeFrom(courseSchedule, k + 1,
                      [d \in DaySet |->
                          IF d \in Range(row.pattern)
                          THEN TreeAdd(trees[d], RowInterval(row))
                          ELSE trees[d]])
             ELSE [exc |-> o, trees |-> trees]

\* ScheduleDensity.compute as a whole: the exception or the six trees
compute(courseSchedule) == computeFrom(courseSchedule, 1, EmptyTrees)

Min(a, b) == IF a <= b THEN a ELSE b

\* a list after n times pop(0); None stays None
Popped(v, n) ==
    IF v.type = "list" THEN PyList(SubSeq(v.val, n + 1, Len(v.val))) ELSE v

\* the item of a loop over n items at which v.pop(0) raises IndexError,
\* n + 1 when it never does
FailsAt(v, n) == IF v.type = "list" THEN Min(Len(v.val), n) + 1 ELSE n + 1

\* "for fig in figList": the titles left and the exception
RenderFigs(ss) ==
    LET figs == ss["figList"]
        titles == ss["figListTitles"]
        n == IF figs.type = "list" THEN Len(figs.val) ELSE 0
        f == FailsAt(titles, n)
    IN  [ss |-> SetKey(ss, "figListTitles", Popped(titles, Min(f, n + 1) - 1)),
         exc |-> IF f <= n THEN "IndexError" ELSE "none"]

\* "for df in dfList": the titles and subtitles left and the exception
RenderDfs(ss) ==
    LET dfs == ss["dfList"]
        titles == ss["dfListTitles"]
        subtitles == ss["dfListSubtitles"]
        n == IF dfs.type = "list" THEN Len(dfs.val) ELSE 0
        ft == FailsAt(titles, n)
        fs == FailsAt(subtitles, n)
        f == Min(ft, fs)
        nTitles == IF f > n THEN n ELSE IF ft <= fs THEN f - 1 ELSE f
        nSubtitles == IF f > n THEN n ELSE f - 1
    IN  [ss |-> SetKey(SetKey(ss, "dfListTitles", Popped(titles, nTitles)),
                       "dfListSubtitles", Popped(subtitles, nSubtitles)),
         exc |-> IF f <= n THEN "IndexError" ELSE "none"]

uiFrame == <<pc, rowIdx, dayIdx, exc, overlapThreshold, runs, prev,
             patternRow, tradPattern, printed>>

\* main, line 41
main_initialState ==
    /\ mainPc = "start"
    /\ session_state' = initialState(session_state)
    /\ page' = [page EXCEPT !.buttons = FALSE, !.error = FALSE,
                            !.filterConn = <<>>, !.exc = "none"]
    /\ mainPc' = "upload"
    /\ UNCHANGED <<uiFrame, sheet, schedule, dayIntervalTree, markers, yaxis,
                   excelFile>>

\* main, lines 51-56
main_upload ==
    /\ mainPc = "upload"
    /\ IF excelFile # NoFile
       THEN /\ sheet' = excelFile.rows
            /\ schedule' = [k \in 1..Len(excelFile.rows) |->
                               StoredRow(excelFile.rows[k])]
            /\ session_state' =
                   SetKey(SetKey(session_state, "dbConn", PyConn(excelFile)),
                          "showAnalyticButtons", PyTrue)
       ELSE /\ session_state' = resetState(session_state)
            /\ UNCHANGED <<sheet, schedule>>
    /\ mainPc' = "render"
    /\ UNCHANGED <<uiFrame, dayIntervalTree, markers, yaxis, excelFile, page>>

\* main, lines 58-205: the buttons, the titles, the figures and the tables
main_render ==
    /\ mainPc = "render"
    /\ IF Truthy(session_state["showAnalyticButtons"])
       THEN LET figs == RenderFigs(session_state)
                dfs == RenderDfs(figs.ss)
            IN  IF figs.exc # "none"
                THEN /\ session_state' = figs.ss
                     /\ page' = [page EXCEPT !.buttons = TRUE,
                                             !.exc = figs.exc]
                     /\ mainPc' = "idle"
                ELSE /\ session_state' = dfs.ss
                     /\ page' = [page EXCEPT !.buttons = TRUE,
                                             !.exc = dfs.exc]
                     /\ mainPc' = IF dfs.exc # "none" THEN "idle" ELSE "filter"
       ELSE /\ mainPc' = "filter"
            /\ UNCHANGED <<session_state, page>>
    /\ UNCHANGED <<uiFrame, sheet, schedule, dayIntervalTree, markers, yaxis,
                   excelFile>>

\* main, lines 206-210
main_filter ==
    /\ mainPc = "filter"
    /\ IF /\ "current_page" \in DOMAIN session_state
          /\ session_state["current_page"] = PyStr("filter")
       THEN IF "dbConn" \in DOMAIN session_state
            THEN page' = [page EXCEPT
                             !.filterConn = <<session_state["dbConn"]>>]
            ELSE page' = [page EXCEPT !.error = TRUE]
       ELSE UNCHANGED page
    /\ mainPc' = "idle"
    /\ UNCHANGED <<uiFrame, sheet, schedule, dayIntervalTree, markers, yaxis,
                   excelFile, session_state>>

\* the user puts a file into the uploader or takes it out: the script runs
ChangeFile(f) ==
    /\ mainPc = "idle"
    /\ f # excelFile
    /\ excelFile' = f
    /\ page' = [page EXCEPT !.callback = "none", !.callbackExc = "none"]
    /\ mainPc' = "start"
    /\ UNCHANGED <<uiFrame, sheet, schedule, dayIntervalTree, markers, yaxis,
                   session_state>>

\* the button "Filter Course Schedule": its callback, then the script runs
ClickFilter ==
    /\ mainPc = "idle"
    /\ page.buttons
    /\ session_state' = SetKey(session_state, "current_page", PyStr("filter"))
    /\ page' = [page EXCEPT !.callback = "filter", !.callbackExc = "none"]
    /\ mainPc' = "start"
    /\ UNCHANGED <<uiFrame, sheet, schedule, dayIntervalTree, markers, yaxis,
                   excelFile>>

\* a callback has ended: the script runs next; after an exception the
\* script may also not run, and then only the exception is displayed
AfterCallback(name, e) ==
    \/ /\ mainPc' = "start"
       /\ page' = [page EXCEPT !.callback = name, !.callbackExc = e]
    \/ /\ e # "none"
       /\ mainPc' = "idle"
       /\ page' = [page EXCEPT !.callback = name, !.callbackExc = e,
                               !.buttons = FALSE]

\* the keys of updates set in ss
SetKeys(ss, updates) ==
    [k \in DOMAIN ss \cup DOMAIN updates |->
        IF k \in DOMAIN updates THEN updates[k] ELSE ss[k]]

\* a run that leaves the list of figures unset
ScheduleDensity_run_noFigList ==
    /\ mainPc = "idle"
    /\ page.buttons
    /\ LET res == compute(schedule)
       IN  /\ session_state' =
                  IF res.exc # "none" THEN clearContent(session_state)
                  ELSE SetKeys(clearContent(session_state),
                           [analyticTitle |-> PyStr("Schedule Density"),
                            analyticSubtitle |-> PyStr("Display the density of courses within the schedule"),
                            figListTitles |-> PyList(<<"Schedule Density Plot">>)])
           /\ UNCHANGED <<dayIntervalTree, markers, yaxis>>
           /\ AfterCallback("ScheduleDensity", res.exc)
    /\ UNCHANGED <<uiFrame, sheet, schedule, excelFile>>

\* the button "Schedule Density": ScheduleDensity.run
ScheduleDensity_run ==
    /\ mainPc = "idle"
    /\ page.buttons
    /\ LET res == compute(schedule)
       IN  IF res.exc # "none"
           THEN /\ session_state' = clearContent(session_state)
                /\ UNCHANGED <<dayIntervalTree, markers, yaxis>>
                /\ AfterCallback("ScheduleDensity", res.exc)
           ELSE /\ dayIntervalTree' = res.trees
                /\ markers' = Markers(res.trees, DefaultOverlapThreshold)
                /\ yaxis' = [tickvals |-> [i \in 1..Len(plotDays) |-> i - 1],
                             ticktext |-> plotDays]
                /\ session_state' =
                       SetKeys(clearContent(session_state),
                           [analyticTitle |-> PyStr("Schedule Density"),
                            analyticSubtitle |-> PyStr("Display the density of courses within the schedule"),
                            figList |-> PyList(<<"Figure">>),
                            figListTitles |-> PyList(<<"Schedule Density Plot">>)])
                /\ AfterCallback("ScheduleDensity", "none")
    /\ UNCHANGED <<uiFrame, sheet, schedule, excelFile>>

\* the button "Show Course Schedule": CourseSchedule.run
CourseSchedule_run ==
    /\ mainPc = "idle"
    /\ page.buttons
    /\ session_state' =
           SetKeys(clearContent(session_state),
               [analyticTitle |-> PyStr("Course Schedule"),
                analyticSubtitle |-> PyStr("The current course schedule"),
                dfList |-> PyList(<<"DataFrame">>)])
    /\ AfterCallback("CourseSchedule", "none")
    /\ UNCHANGED <<uiFrame, sheet, schedule, dayIntervalTree, markers, yaxis,
                   excelFile>>

\* the button "Number of Assignments Per Faculty Member":
\* AssignmentsPerFaculty.run
AssignmentsPerFaculty_run ==
    /\ mainPc = "idle"
    /\ page.buttons
    /\ session_state' =
           SetKeys(clearContent(session_state),
               [analyticTitle |-> PyStr("Number of Assignments Per Faculty Member"),
                analyticSubtitle |-> PyStr("The number of courses that are assigned to each faculty member for the current term"),
                dfList |-> PyList(<<"DataFrame">>),
                dfListTitles |-> PyList(<<"Faculty Assignment Count">>),
                figList |-> PyList(<<"Figure">>),
                figListTitles |-> PyList(<<"Faculty Assignment Count Plot">>)])
    /\ AfterCallback("AssignmentsPerFaculty", "none")
    /\ UNCHANGED <<uiFrame, sheet, schedule, dayIntervalTree, markers, yaxis,
                   excelFile>>

\* the instructors groupby(by="INSTRUCTOR") iterates over: a missing
\* instructor makes no group
InstructorGroups(file) ==
    {file.assignments[i].INSTRUCTOR : i \in 1..Len(file.assignments)}
        \ {"NaN"}

\* the button "Instructor Assignments": InstructorAssignments.run
InstructorAssignments_run ==
    /\ mainPc = "idle"
    /\ page.buttons
    /\ LET cleared == clearContent(session_state)
           titled == SetKeys(cleared,
               [analyticTitle |-> PyStr("Instructor Assignments"),
                analyticSubtitle |-> PyStr("Show instructor assignments"),
                filterZero |-> PyFalse])
       IN  IF "filterZero" \notin DOMAIN session_state
           THEN /\ session_state' = cleared
                /\ AfterCallback("InstructorAssignments", "KeyError")
           ELSE IF InstructorGroups(excelFile) # {}
           THEN /\ session_state' = titled
                /\ AfterCallback("InstructorAssignments", "KeyError")
           ELSE /\ session_state' =
                       SetKeys(titled, [dfList |-> PyList(<<>>),
                                        dfListTitles |-> PyList(<<>>)])
                /\ AfterCallback("InstructorAssignments", "none")
    /\ UNCHANGED <<uiFrame, sheet, schedule, dayIntervalTree, markers, yaxis,
                   excelFile>>

NextSession ==
    \/ main_initialState
    \/ main_upload
    \/ main_render
    \/ main_filter
    \/ \E f \in Files \cup {NoFile} : ChangeFile(f)
    \/ ClickFilter
    \/ ScheduleDensity_run
    \/ CourseSchedule_run
    \/ AssignmentsPerFaculty_run
    \/ InstructorAssignments_run

SpecSession == Init /\ [][NextSession]_vars

\* ------------------------------------------------- createIntervalTrees
\* the rows of schedule_df: the pattern traditionalMeetingPattern returned
\* and the times as "%H:%M:%S", NoTime for a missing one
DfRow(pat, st, en) == [pattern |-> pat, start |-> st, end |-> en]

DfRows ==
    {DfRow(<<"M", "Z", "W">>, <<9, 0, 0>>, <<10, 0, 0>>),
     DfRow(<<"M", "W", "F">>, <<9, 0, 0>>, <<10, 15, 0>>),
     DfRow(<<"X", "R">>, <<9, 30, 0>>, <<10, 30, 0>>),
     DfRow(<<"M", "W">>, <<10, 0, 0>>, <<9, 0, 0>>),
     DfRow(<<"T">>, <<9, 0, 0>>, <<9, 0, 30>>),
     DfRow(<<"M">>, <<9, 0, 0>>, <<9, 0, 0>>),
     DfRow(<<>>, <<9, 0, 0>>, <<10, 0, 0>>),
     DfRow(<<"M">>, NoTime, <<10, 0, 0>>)}

\* datetime.strptime(s, "%H:%M:%S")
strptime(str) == [hour |-> str[1], minute |-> str[2], second |-> str[3]]

timeToMinutes(t) == t.hour * 60 + t.minute

\* Interval(start_minutes, end_minutes)
DfInterval(row) ==
    <<timeToMinutes(strptime(row.start)), timeToMinutes(strptime(row.end))>>

\* createIntervalTrees is called with a schedule_df: six empty trees, the
\* first row is next
InitCreate ==
    /\ pc = "create"
    /\ sheet = <<>>
    /\ schedule \in UNION {[1..n -> DfRows] : n \in 0..MaxRows}
    /\ dayIntervalTree = [d \in DaySet |-> {}]
    /\ rowIdx = 1
    /\ dayIdx = 0
    /\ exc = "none"
    /\ overlapThreshold = DefaultOverlapThreshold
    /\ markers = <<>>
    /\ yaxis = [tickvals |-> <<>>, ticktext |-> <<>>]
    /\ runs = 0
    /\ prev = NoPrev
    /\ patternRow = ("MEETING PATTERN" :> <<>>)
    /\ tradPattern = NotCalled
    /\ session_state = <<>>
    /\ excelFile = NoFile
    /\ mainPc = "start"
    /\ page = NoPage
    /\ printed = <<>>

createFrame == <<sheet, schedule, overlapThreshold, markers, yaxis, runs,
                 prev, patternRow, tradPattern, session_state, excelFile,
                 mainPc, page>>

\* the head of one iteration of "for index, row in schedule_df.iterrows()"
createIntervalTrees_row ==
    /\ pc = "create"
    /\ rowIdx <= Len(schedule)
    /\ dayIdx = 0
    /\ LET row == schedule[rowIdx]
       IN  IF row.start = row.end
           THEN NextRow /\ UNCHANGED dayIntervalTree
           ELSE IF row.start = NoTime \/ row.end = NoTime
           THEN Raise("TypeError")
           ELSE IF Len(row.pattern) = 0
           THEN NextRow /\ UNCHANGED dayIntervalTree
           ELSE /\ dayIdx' = 1
                /\ UNCHANGED <<pc, exc, rowIdx, dayIntervalTree>>
    /\ UNCHANGED <<createFrame, printed>>

\* the character after this one, or the row after this one
NextDay ==
    IF dayIdx < Len(schedule[rowIdx].pattern)
    THEN /\ dayIdx' = dayIdx + 1
         /\ UNCHANGED <<pc, exc, rowIdx>>
    ELSE NextRow

\* an iteration whose failing insertion ends the function
createIntervalTrees_day_uncaught ==
    /\ pc = "create"
    /\ rowIdx <= Len(schedule)
    /\ dayIdx >= 1
    /\ LET row == schedule[rowIdx]
           day == row.pattern[dayIdx]
           interval == DfInterval(row)
       IN  IF day \notin DaySet
           THEN Raise("KeyError") /\ UNCHANGED printed
           ELSE IF IsNull(interval)
           THEN Raise("ValueError") /\ UNCHANGED printed
           ELSE /\ dayIntervalTree' =
                       [dayIntervalTree EXCEPT ![day] = TreeAdd(@, interval)]
                /\ UNCHANGED printed
                /\ NextDay
    /\ UNCHANGED createFrame

\* one iteration of "for day in pattern": the try around day_trees[day].add
createIntervalTrees_day ==
    /\ pc = "create"
    /\ rowIdx <= Len(schedule)
    /\ dayIdx >= 1
    /\ LET row == schedule[rowIdx]
           day == row.pattern[dayIdx]
           interval == DfInterval(row)
       IN  IF day \notin DaySet \/ IsNull(interval)
           THEN /\ printed' = Append(printed, <<rowIdx, dayIdx>>)
                /\ UNCHANGED dayIntervalTree
                /\ NextDay
           ELSE /\ dayIntervalTree' =
                       [dayIntervalTree EXCEPT ![day] = TreeAdd(@, interval)]
                /\ UNCHANGED printed
                /\ NextDay
    /\ UNCHANGED createFrame

\* the rows are exhausted: return day_trees
createIntervalTrees_return ==
    /\ pc = "create"
    /\ rowIdx > Len(schedule)
    /\ pc' = "created"
    /\ UNCHANGED <<createFrame, printed, dayIntervalTree, rowIdx, dayIdx, exc>>

NextCreate ==
    \/ createIntervalTrees_row
    \/ createIntervalTrees_day
    \/ createIntervalTrees_return

SpecCreate == InitCreate /\ [][NextCreate]_vars

TypeOK ==
    /\ pc \in {"sheet", "db", "compute", "plot", "done", "raised"}
    /\ exc \in {"none", "TypeError", "KeyError", "ValueError", "AttributeError"}
    /\ Len(sheet) <= MaxRows
    /\ overlapThreshold \in Thresholds
    /\ \A d \in DaySet : \A iv \in dayIntervalTree[d] : iv[1] < iv[2]

\* ================================================================= claims
MarkerDay(mk) == yaxis.ticktext[mk.y + 1]

MarkerAt(d, m) ==
    markers[CHOOSE n \in 1..Len(markers) :
                markers[n].x = m /\ MarkerDay(markers[n]) = d]

Minutes(hms) == hms[1] * 60 + hms[2]

GridMinutes == {480 + 5 * k : k \in 0..131}

Covers(iv, m) == iv[1] <= m /\ m < iv[2]

\* C1: after compute and plot, the overlap count of the marker of day d and
\* grid minute m is the number of rows with start != end whose pattern
\* contains d and whose [startMinutes, endMinutes) contains m, every row
\* counted separately.
C1_RowCount ==
    pc = "done" =>
        \A n \in 1..Len(markers) :
            markers[n].overlaps =
                Cardinality({k \in 1..Len(schedule) :
                    /\ schedule[k].start # schedule[k].end
                    /\ MarkerDay(markers[n]) \in Range(schedule[k].pattern)
                    /\ Minutes(schedule[k].start) <= markers[n].x
                    /\ markers[n].x < Minutes(schedule[k].end)})

C4_Severity ==
    pc = "done" =>
        /\ \A n \in 1..Len(markers) :
            LET c == markers[n].overlaps
                T == overlapThreshold
            IN  /\ c = 0 => markers[n].color = "green"
                /\ (0 < c /\ c < T) => markers[n].color = "orange"
                /\ c >= T => markers[n].color = "red"
        /\ (overlapThreshold = 2
                /\ dayIntervalTree["M"] = {<<540, 600>>, <<570, 630>>}) =>
            /\ MarkerAt("M", 580).overlaps = 2
            /\ MarkerAt("M", 580).color = "red"
            /\ MarkerAt("M", 610).overlaps = 1
            /\ MarkerAt("M", 610).color = "orange"
            /\ MarkerAt("M", 700).overlaps = 0
            /\ MarkerAt("M", 700).color = "green"

C4_Witness ==
    /\ pc = "done"
    /\ overlapThreshold = 2
    /\ dayIntervalTree["M"] = {<<540, 600>>, <<570, 630>>}
    /\ MarkerAt("M", 580).color = "red"

\* C5: plot produces 792 markers, exactly one for each of the 6 days and
\* each of the 132 five-minute slots 480, 485, ..., 1135; x is the minute
\* and y the position of the day on the y axis, S = 0 up to M = 5.
C5_Grid ==
    pc = "done" =>
        /\ Len(markers) = 792
        /\ {<<markers[n].x, markers[n].y>> : n \in 1..Len(markers)}
                = GridMinutes \X (0..5)
        /\ yaxis.tickvals = <<0, 1, 2, 3, 4, 5>>
        /\ yaxis.ticktext = <<"S", "F", "R", "W", "T", "M">>
        /\ \A n \in 1..Len(markers) :
            markers[n].overlaps =
                Cardinality({iv \in dayIntervalTree[
                                 yaxis.ticktext[markers[n].y + 1]] :
                                Covers(iv, markers[n].x)})

C5_Witness ==
    /\ pc = "done"
    /\ Len(markers) = 792
    /\ dayIntervalTree["S"] # {}
    /\ dayIntervalTree["M"] # {}
    /\ markers[1].y = 0 /\ markers[1].x = 480
    /\ markers[792].y = 5 /\ markers[792].x = 1135

AtZeroDurationRow ==
    /\ pc = "compute"
    /\ rowIdx <= Len(schedule)
    /\ dayIdx = 0
    /\ schedule[rowIdx].start = schedule[rowIdx].end

\* C6: a row whose start time equals its end time is skipped by the index
\* build: the step that handles it leaves every day's index as it was,
\* raises nothing and goes on with the next row.
C6_ZeroDurationSkipped ==
    [][AtZeroDurationRow =>
            /\ dayIntervalTree' = dayIntervalTree
            /\ pc' = "compute"
            /\ rowIdx' = rowIdx + 1
            /\ dayIdx' = 0]_vars

C6_Witness ==
    /\ pc = "done"
    /\ Len(schedule) = 2
    /\ schedule[1].start = schedule[1].end
    /\ schedule[1].pattern = <<"M", "W", "F">>
    /\ schedule[2].pattern = <<"M">>
    /\ dayIntervalTree["M"] = {<<540, 600>>}
    /\ dayIntervalTree["W"] = {}

SingleMeeting ==
    /\ pc \in {"compute", "plot", "done", "raised"}
    /\ Len(schedule) = 1
    /\ schedule[1].pattern # NaN
    /\ Range(schedule[1].pattern) \subseteq DaySet
    /\ schedule[1].start # NoTime
    /\ schedule[1].end # NoTime
    /\ Minutes(schedule[1].start) < Minutes(schedule[1].end)

\* C7: for a single meeting with start < end whose stored pattern is a set
\* P of day tokens, compute returns the interval (startHour*60+startMinute,
\* endHour*60+endMinute) in the index of each day of P and nothing in the
\* index of any other day; "MWF" 09:00:00-10:15:00 gives (540, 615) in M, W
\* and F only.
C7_OneIntervalPerDay ==
    /\ SingleMeeting => pc # "raised"
    /\ (SingleMeeting /\ pc \in {"plot", "done"}) =>
        LET row == schedule[1]
            P == Range(row.pattern)
            interval == <<row.start[1] * 60 + row.start[2],
                          row.end[1] * 60 + row.end[2]>>
        IN  /\ \A d \in DaySet :
                dayIntervalTree[d] = IF d \in P THEN {interval} ELSE {}
            /\ Cardinality({<<d, iv>> \in DaySet \X {interval} :
                               iv \in dayIntervalTree[d]}) = Cardinality(P)
            /\ (row = [pattern |-> <<"M", "W", "F">>,
                       start |-> <<9, 0, 0>>, end |-> <<10, 15, 0>>]) =>
                /\ \A d \in {"M", "W", "F"} :
                    dayIntervalTree[d] = {<<540, 615>>}
                /\ \A d \in {"T", "R", "S"} : dayIntervalTree[d] = {}

C7_Witness ==
    /\ pc = "plot"
    /\ schedule = <<[pattern |-> <<"M", "W", "F">>,
                     start |-> <<9, 0, 0>>, end |-> <<10, 15, 0>>]>>
    /\ dayIntervalTree["F"] = {<<540, 615>>}

\* C8: a row whose pattern is the empty string or missing adds no interval
\* to any index and does not end the build: compute goes on with the next
\* row.
C8_EmptyPatternHarmless ==
    \A k \in 1..Len(schedule) :
        schedule[k].pattern \in {<<>>, NaN} =>
            ~(pc = "raised" /\ rowIdx = k)

\* C9: the stored TRAD MEETING PATTERN is the raw string with every
\* occurrence of "TR" replaced by "R", then every "SA" by "S", then every
\* "SU" by "X", also inside a longer pattern, so that every character left
\* is a day token of {M,T,W,R,F,S,X}.
C9_SubstringNormalised ==
    pc # "sheet" =>
        \A k \in 1..Len(schedule) :
            sheet[k].pattern # NaN =>
                /\ schedule[k].pattern =
                    StrReplace(StrReplace(StrReplace(sheet[k].pattern,
                                   S_TR, <<"R">>), S_SA, <<"S">>),
                               S_SU, <<"X">>)
                /\ sheet[k].pattern \in
                        {<<>>, <<"M">>, <<"M", "W", "F">>, S_TR, S_SA, S_SU,
                         <<"M", "W", "S", "A">>, <<"W", "T", "R">>} =>
                    Range(schedule[k].pattern)
                        \subseteq {"M", "T", "W", "R", "F", "S", "X"}

\* C10: the X token of a Sunday meeting adds no interval to any of the six
\* indices and does not stop the build.
C10_SundayHarmless ==
    ~(/\ pc = "raised"
      /\ rowIdx \in 1..Len(schedule)
      /\ dayIdx \in 1..Len(schedule[rowIdx].pattern)
      /\ schedule[rowIdx].pattern[dayIdx] = "X")

AtToken ==
    /\ rowIdx \in 1..Len(schedule)
    /\ dayIdx \in 1..Len(schedule[rowIdx].pattern)

\* C11: a pattern character that is no known day token is a per-row error:
\* it does not end compute, which still returns the indices of the other
\* meetings.
C11_UnknownTokenSkipped ==
    ~(/\ pc = "raised"
      /\ AtToken
      /\ schedule[rowIdx].pattern[dayIdx]
            \notin {"M", "T", "W", "R", "F", "S", "X"})

\* C12: a row whose start or end time is missing adds no interval and does
\* not end compute, which still returns the intervals of the other rows.
C12_MissingTimeSkipped ==
    \A k \in 1..Len(schedule) :
        (schedule[k].start = NoTime \/ schedule[k].end = NoTime) =>
            ~(pc = "raised" /\ rowIdx = k)

\* the days a class meets on: its raw pattern with "TR", "SA" and "SU"
\* replaced wherever they occur
MeetingDays(raw) ==
    Range(StrReplace(StrReplace(StrReplace(raw, S_TR, <<"R">>),
                                S_SA, <<"S">>),
                     S_SU, <<"X">>))

\* C13: every interval in the index of day d comes from a row whose class
\* meets on d; a Wednesday+Thursday class written "WTR" adds nothing to the
\* index of Tuesday.
C13_IntervalsFromMeetingDays ==
    \A d \in DaySet : \A iv \in dayIntervalTree[d] :
        \E k \in 1..Len(schedule) :
            /\ sheet[k].pattern # NaN
            /\ d \in MeetingDays(sheet[k].pattern)
            /\ iv = <<Minutes(schedule[k].start), Minutes(schedule[k].end)>>

\* C14: in every state every stored interval (begin, end) has integers
\* 0 <= begin < end < 1440, and a row whose end is not after its start never
\* has its interval in an index.
C14_IntervalsWellFormed ==
    /\ \A d \in DaySet : \A iv \in dayIntervalTree[d] :
        /\ iv[1] \in 0..1439
        /\ iv[2] \in 0..1439
        /\ iv[1] < iv[2]
    /\ \A k \in 1..Len(schedule) :
        Minutes(schedule[k].start) >= Minutes(schedule[k].end) =>
            \A d \in DaySet :
                <<Minutes(schedule[k].start), Minutes(schedule[k].end)>>
                    \notin dayIntervalTree[d]

C14_Witness ==
    /\ pc = "raised"
    /\ exc = "ValueError"
    /\ rowIdx = 2
    /\ schedule[2].start = <<10, 0, 0>>
    /\ schedule[2].end = <<9, 0, 0>>
    /\ dayIntervalTree["M"] = {<<570, 630>>}

\* C15: for an empty sequence of rows compute returns six empty indices
\* keyed M, T, W, R, F, S and plot gives 792 markers, all with overlap
\* count 0 and colour green.
C15_EmptySchedule ==
    (Len(schedule) = 0 /\ pc \in {"plot", "done"}) =>
        /\ DOMAIN dayIntervalTree = {"M", "T", "W", "R", "F", "S"}
        /\ \A d \in DOMAIN dayIntervalTree : dayIntervalTree[d] = {}
        /\ pc = "done" =>
            /\ Len(markers) = 792
            /\ \A n \in 1..Len(markers) :
                markers[n].overlaps = 0 /\ markers[n].color = "green"

C15_Witness ==
    /\ pc = "done"
    /\ Len(sheet) = 0
    /\ Len(schedule) = 0
    /\ markers[792].color = "green"

\* C16: within one run the indices are built before they are queried: an
\* index changes only while compute runs, the markers are made only after
\* compute has returned, and no index changes from then on.
C16_BuildThenQuery ==
    [][/\ pc \in {"plot", "done"} => dayIntervalTree' = dayIntervalTree
       /\ markers' # markers =>
            pc = "plot" /\ dayIntervalTree' = dayIntervalTree
       /\ dayIntervalTree' # dayIntervalTree =>
            pc = "compute" /\ markers' = markers]_vars

C16_Witness ==
    /\ pc = "done"
    /\ dayIntervalTree["M"] = {<<540, 600>>, <<570, 630>>}
    /\ Len(markers) = 792

SingleTR ==
    /\ pc \in {"compute", "plot", "done", "raised"}
    /\ Len(sheet) = 1
    /\ sheet[1].pattern = <<"T", "R">>
    /\ Minutes(schedule[1].start) < Minutes(schedule[1].end)

\* C19: a meeting whose raw pattern is exactly "TR" is stored as "R" and
\* adds one interval to the Thursday index and none to the Tuesday index.
C19_TRIsThursdayOnly ==
    SingleTR =>
        /\ schedule[1].pattern = <<"R">>
        /\ dayIntervalTree["T"] = {}
        /\ pc # "raised"
        /\ pc \in {"plot", "done"} =>
            /\ dayIntervalTree["R"] =
                {<<Minutes(schedule[1].start), Minutes(schedule[1].end)>>}
            /\ \A d \in DaySet \ {"R"} : dayIntervalTree[d] = {}

C19_Witness ==
    /\ pc = "plot"
    /\ sheet = <<SheetRow(<<"T", "R">>, T0900, T1000)>>
    /\ dayIntervalTree["R"] = {<<540, 600>>}
    /\ dayIntervalTree["T"] = {}

\* C17: every invocation of compute starts from six empty indices, and the
\* indices it returns hold the intervals of the rows of that invocation and
\* nothing of an earlier one.
C17_FreshIndices ==
    /\ (pc = "compute" /\ rowIdx = 1 /\ dayIdx = 0) =>
        \A d \in DaySet : dayIntervalTree[d] = {}
    /\ pc \in {"plot", "done"} =>
        \A d \in DaySet :
            dayIntervalTree[d] =
                {<<Minutes(schedule[k].start), Minutes(schedule[k].end)>> :
                    k \in {j \in 1..Len(schedule) :
                            /\ schedule[j].start # schedule[j].end
                            /\ d \in Range(schedule[j].pattern)}}

C17_Witness ==
    /\ pc = "done"
    /\ runs = 2
    /\ prev.valid
    /\ prev.trees["M"] = {<<540, 600>>}
    /\ dayIntervalTree["M"] = {<<570, 630>>}

\* C18: compute and plot run twice on the same rows with the same threshold
\* give the same marker list: same length, same order, same x, y, colour,
\* size and overlaps at every position.
C18_SameMarkers ==
    (/\ pc = "done"
     /\ prev.valid
     /\ prev.schedule = schedule
     /\ prev.threshold = overlapThreshold) =>
        /\ Len(markers) = Len(prev.markers)
        /\ \A n \in 1..Len(markers) :
            /\ markers[n].x = prev.markers[n].x
            /\ markers[n].y = prev.markers[n].y
            /\ markers[n].color = prev.markers[n].color
            /\ markers[n].size = prev.markers[n].size
            /\ markers[n].overlaps = prev.markers[n].overlaps

C18_Witness ==
    /\ pc = "done"
    /\ runs = 2
    /\ prev.valid
    /\ prev.schedule = schedule
    /\ Len(schedule) = 2
    /\ prev.markers = markers
    /\ \E n \in 1..Len(markers) : markers[n].color = "red"

\* s with every occurrence of the two different characters old[1] old[2]
\* replaced by new: the first character of an occurrence becomes new, the
\* second one disappears, every other character stays
EveryOccurrenceReplaced(s, old, new) ==
    LET hit(i) == i < Len(s) /\ s[i] = old[1] /\ s[i + 1] = old[2]
        marked == [i \in 1..Len(s) |->
                      <<~(i > 1 /\ hit(i - 1)),
                        IF hit(i) THEN new ELSE s[i]>>]
        kept == SelectSeq(marked, LAMBDA m : m[1])
    IN  [i \in 1..Len(kept) |-> kept[i][2]]

\* C20: traditionalMeetingPattern returns the pattern with every "TR"
\* replaced by "R", then every "SA" by "S", then every "SU" by "X" ("MWF TR"
\* gives "MWF R", "SA SU" gives "S X"), and the empty string for an empty or
\* missing pattern.
C20_TraditionalPattern ==
    tradPattern # NotCalled =>
        LET p == patternRow["MEETING PATTERN"]
        IN  /\ p \in {<<>>, NaN} => tradPattern = <<>>
            /\ p \notin {<<>>, NaN} =>
                tradPattern =
                    EveryOccurrenceReplaced(
                        EveryOccurrenceReplaced(
                            EveryOccurrenceReplaced(p, <<"T", "R">>, "R"),
                            <<"S", "A">>, "S"),
                        <<"S", "U">>, "X")
            /\ p = <<"M", "W", "F", " ", "T", "R">> =>
                tradPattern = <<"M", "W", "F", " ", "R">>
            /\ p = <<"S", "A", " ", "S", "U">> =>
                tradPattern = <<"S", " ", "X">>

C20_Witness ==
    /\ patternRow["MEETING PATTERN"] = <<"M", "W", "F", " ", "T", "R">>
    /\ tradPattern = <<"M", "W", "F", " ", "R">>

\* the seven content keys and the two keys that are not content
ContentKeys ==
    {"analyticTitle", "analyticSubtitle", "dfList", "dfListTitles",
     "dfListSubtitles", "figList", "figListTitles"}

AllKeys == ContentKeys \cup {"dbConn", "showAnalyticButtons"}

\* this step is the run of an analytic that raised before it wrote any key
\* itself: clearContent is all it did to the session state
RunThatOnlyCleared ==
    /\ mainPc = "idle"
    /\ page'.callback \in {"ScheduleDensity", "InstructorAssignments"}
    /\ page'.callbackExc # "none"
    /\ "filterZero" \notin DOMAIN session_state

\* C21: clearContent sets the seven content keys to None and leaves dbConn
\* and showAnalyticButtons as they were, whatever the session state was.
C21_ClearContent ==
    [][RunThatOnlyCleared =>
          /\ \A k \in ContentKeys : session_state'[k] = PyNone
          /\ session_state'["dbConn"] = session_state["dbConn"]
          /\ session_state'["showAnalyticButtons"] =
                 session_state["showAnalyticButtons"]]_vars

\* clearContent has run on a session that holds a connection
C21_Witness ==
    /\ page.callback = "InstructorAssignments"
    /\ page.callbackExc = "KeyError"
    /\ mainPc = "start"
    /\ \A k \in ContentKeys : session_state[k] = PyNone
    /\ session_state["dbConn"].type = "Connection"
    /\ session_state["showAnalyticButtons"] = PyTrue

\* C22: initialState sets a key of SESSION_STATE_KEYS to None only when the
\* key does not exist and never overwrites a value (so a second call changes
\* nothing), whereas resetState sets all nine keys to None whatever they held.
C22_InitialVsReset ==
    [][/\ (mainPc = "start" /\ mainPc' = "upload") =>
              /\ DOMAIN session_state' = DOMAIN session_state \cup AllKeys
              /\ \A k \in DOMAIN session_state :
                     session_state'[k] = session_state[k]
              /\ \A k \in AllKeys \ DOMAIN session_state :
                     session_state'[k] = PyNone
              /\ AllKeys \subseteq DOMAIN session_state =>
                     session_state' = session_state
       /\ (mainPc = "upload" /\ mainPc' = "render" /\ excelFile = NoFile) =>
              \A k \in AllKeys : session_state'[k] = PyNone]_vars

\* initialState has run on a session that holds values and has kept them;
\* resetState is next
C22_Witness ==
    /\ mainPc = "upload"
    /\ excelFile = NoFile
    /\ session_state["dbConn"].type = "Connection"
    /\ session_state["showAnalyticButtons"] = PyTrue
    /\ session_state["figList"].type = "list"

\* this step is a ScheduleDensity.run that returned
ScheduleDensityReturned ==
    /\ mainPc = "idle"
    /\ page'.callback = "ScheduleDensity"
    /\ page'.callbackExc = "none"

\* C23: after ScheduleDensity.run, whatever an earlier analytic left in the
\* session state, analyticTitle is "Schedule Density", figList holds exactly
\* one figure and figListTitles exactly one title, dfList, dfListTitles and
\* dfListSubtitles are None, and dbConn and showAnalyticButtons are unchanged.
C23_DensityRunState ==
    [][ScheduleDensityReturned =>
          /\ session_state'["analyticTitle"] = PyStr("Schedule Density")
          /\ session_state'["figList"].type = "list"
          /\ Len(session_state'["figList"].val) = 1
          /\ session_state'["figListTitles"].type = "list"
          /\ Len(session_state'["figListTitles"].val) = 1
          /\ session_state'["dfList"] = PyNone
          /\ session_state'["dfListTitles"] = PyNone
          /\ session_state'["dfListSubtitles"] = PyNone
          /\ session_state'["dbConn"] = session_state["dbConn"]
          /\ session_state'["showAnalyticButtons"] =
                 session_state["showAnalyticButtons"]]_vars

\* ScheduleDensity.run has returned and the script has not run yet
C23_Witness ==
    /\ mainPc = "start"
    /\ page.callback = "ScheduleDensity"
    /\ page.callbackExc = "none"
    /\ session_state["analyticTitle"] = PyStr("Schedule Density")
    /\ session_state["dfList"] = PyNone
    /\ Len(markers) = 6 * NumSlots

\* a script run has ended with no file in the uploader and the filter page
\* selected
FilterPageWithoutFile ==
    /\ mainPc = "idle"
    /\ excelFile = NoFile
    /\ "current_page" \in DOMAIN session_state
    /\ session_state["current_page"] = PyStr("filter")

\* C24: with the filter page selected and no file uploaded, main shows the
\* error "Please upload a file to continue." and does not construct or run
\* FilterCourseSchedule with a missing connection.
C24_FilterNeedsFile ==
    FilterPageWithoutFile =>
        /\ page.error
        /\ page.filterConn = <<>>

\* C25: after every pass of main, whatever files were uploaded and removed,
\* showAnalyticButtons is truthy only if dbConn holds a connection, and with
\* no file uploaded all nine session keys are None and no analytic button is
\* shown.
C25_ButtonsNeedConnection ==
    mainPc \in {"render", "filter", "idle"} =>
        /\ Truthy(session_state["showAnalyticButtons"]) =>
               session_state["dbConn"].type = "Connection"
        /\ excelFile = NoFile =>
               /\ \A k \in AllKeys : session_state[k] = PyNone
               /\ ~page.buttons

\* a pass without a file has ended in a session in which Schedule Density
\* had been run on an earlier upload
C25_Witness ==
    /\ mainPc = "idle"
    /\ excelFile = NoFile
    /\ Len(markers) > 0
    /\ \A k \in AllKeys : session_state[k] = PyNone

\* v is None or a list of at least as many titles as items holds items
EnoughTitles(v, items) ==
    \/ v = PyNone
    \/ items.type # "list"
    \/ Len(v.val) >= Len(items.val)

\* C26: every rendering pass of main completes without an uncaught
\* exception: at the start of the rendering loops figListTitles and
\* dfListTitles, when not None, hold at least as many titles as figList and
\* dfList hold items, also on a rerun after the titles have been consumed.
C26_RenderCompletes ==
    /\ page.exc = "none"
    /\ (mainPc = "render" /\ Truthy(session_state["showAnalyticButtons"])) =>
           /\ EnoughTitles(session_state["figListTitles"],
                           session_state["figList"])
           /\ EnoughTitles(session_state["dfListTitles"],
                           session_state["dfList"])

\* C29: InstructorAssignments.run completes on a fresh session: every
\* session-state key it reads, filterZero included, is defined when the
\* button can be clicked, and the run ends without an exception.
C29_InstructorRunCompletes ==
    /\ (mainPc = "idle" /\ page.buttons) =>
           "filterZero" \in DOMAIN session_state
    /\ page.callback = "InstructorAssignments" => page.callbackExc = "none"

\* the COMBINED ID groups of one instructor
CombinedIds(file, instructor) ==
    {file.assignments[i].COMBINED_ID :
        i \in {j \in 1..Len(file.assignments) :
                  file.assignments[j].INSTRUCTOR = instructor}}

\* "<instructor> (i/count)"
GroupTitle(instructor, i, count) ==
    instructor \o " (" \o ToString(i) \o "/" \o ToString(count) \o ")"

\* C28: after InstructorAssignments.run, dfList and dfListTitles have the
\* same length, one entry per COMBINED ID group of every instructor, and the
\* titles are "<instructor> (i/count)" for i from 1 to that instructor's
\* number of groups.
C28_TitlesMatchTables ==
    (page.callback = "InstructorAssignments" /\ mainPc = "start") =>
        LET tables == session_state["dfList"]
            titles == session_state["dfListTitles"]
            groups == InstructorGroups(excelFile)
        IN  /\ tables.type = "list"
            /\ titles.type = "list"
            /\ Len(tables.val) = Len(titles.val)
            /\ Len(tables.val) =
                   Cardinality({<<g, c>> \in groups \X
                                   {excelFile.assignments[i].COMBINED_ID :
                                       i \in 1..Len(excelFile.assignments)} :
                                   c \in CombinedIds(excelFile, g)})
            /\ Range(titles.val) =
                   UNION {{GroupTitle(g, i, Cardinality(CombinedIds(excelFile, g))) :
                              i \in 1..Cardinality(CombinedIds(excelFile, g))} :
                          g \in groups}

\* the insertion of this step's character fails: the character is no key of
\* day_trees or the interval is null
InsertFails ==
    /\ pc = "create"
    /\ rowIdx <= Len(schedule)
    /\ dayIdx >= 1
    /\ \/ schedule[rowIdx].pattern[dayIdx] \notin DaySet
       \/ Minutes(schedule[rowIdx].start) >= Minutes(schedule[rowIdx].end)

\* the intervals createIntervalTrees is to return for day d: those of the
\* rows with different, well-ordered times whose pattern holds d
ExpectedTree(d) ==
    {<<Minutes(schedule[k].start), Minutes(schedule[k].end)>> :
        k \in {j \in 1..Len(schedule) :
                  /\ schedule[j].start # schedule[j].end
                  /\ Minutes(schedule[j].start) < Minutes(schedule[j].end)
                  /\ d \in Range(schedule[j].pattern)}}

====
